---- MODULE Spec2Model ----
\* Model of the Advanced Batch Renderer add-on (advanced_batch_renderer.py):
\* the render queue, the global render_state, the Start/Cancel/Pause/Resume/
\* Refresh/Move operators, the internal queue step, the modal timer operator
\* and the three render handlers, run against an abstract render backend.
EXTENDS Integers, Sequences, FiniteSets, TLC

\* ------------------------------------------------------------------ bounds
MaxFrames    == 2  \* frames of an animation job (frame_start = 1 .. frame_end)
MaxCommands  == 4  \* commands and edits the user issues (and that are accepted) in one behaviour
MaxSamples   == 4  \* BackendPost is not taken once frame_times would grow past this
MaxClock     == 1  \* time.time() runs from 0 to this value
MaxLen       == 4  \* queue length of the lookup specification
LongRange    == 100  \* frame_end of the long animation of the ETA specification

\* ------------------------------------------------------- program constants
NONE == -1                      \* the "no item" index
ImagePrior == 30                \* average used when no sample exists
FrameStart == 1
FrameEnd == MaxFrames
NoneRef == "None"               \* Python None for a scene reference or a path

SceneNames  == {"S1", "S2"}
CameraNames == {"A", "B"}
SceneOrder  == <<"S1", "S2">>
CameraOrder == <<"A", "B">>

VARIABLES
    render_state,   \* the global dict of the add-on
    handlers,       \* bpy.app.handlers.render_pre/post/cancel: occurrences of the add-on's callbacks
    data_scenes,    \* bpy.data.scenes: names of the scenes that exist
    scene,          \* per scene: objects (cameras), render.filepath, render_queue
    window_scene,   \* context.window.scene (= context.scene)
    wm_timers,      \* window-manager event timers alive
    modals,         \* modal handlers of RENDER_OT_render_queue_control alive
    app_timers,     \* bpy.app.timers: camera lists of the pending deferred populates
    backend,        \* the render job the backend holds
    clock,          \* time.time()
    used,           \* accepted user commands and edits so far
    last_op,        \* the operation that ran last and its outcome
    pre_start       \* active scene and output path just before the last accepted Start

vars == <<render_state, handlers, data_scenes, scene, window_scene, wm_timers,
          modals, app_timers, backend, clock, used, last_op, pre_start>>

\* ------------------------------------------------------------- data model
IdleState ==
    [is_rendering |-> FALSE, is_paused |-> FALSE, is_refreshing |-> FALSE,
     current_item_index |-> NONE, original_scene |-> NoneRef,
     original_path |-> NoneRef, timer |-> FALSE, job_start_time |-> 0,
     frame_times |-> <<>>]

RenderQueueItem(s, c) ==
    [scene_name |-> s, camera_name |-> c, enabled |-> TRUE,
     render_type |-> "IMAGE", progress |-> 0, status |-> "Pending"]

RenderQueuePropertyGroup ==
    [items |-> <<>>, active_index |-> 0,
     eta_display |-> "Ready. Press 'Refresh' to build queue."]

BackendIdle == [busy |-> FALSE, scene |-> NoneRef, camera |-> NoneRef,
                animation |-> FALSE, frame |-> FrameStart, started |-> FALSE]

\* The whole program state as one value; exc is TRUE while a Python exception
\* is propagating out of the code that produced the value.
World ==
    [rs |-> render_state, handlers |-> handlers, data_scenes |-> data_scenes,
     scene |-> scene, window_scene |-> window_scene, wm_timers |-> wm_timers,
     modals |-> modals, app_timers |-> app_timers, backend |-> backend,
     clock |-> clock, exc |-> FALSE]

Commit(w) ==
    /\ render_state' = w.rs
    /\ handlers' = w.handlers
    /\ data_scenes' = w.data_scenes
    /\ scene' = w.scene
    /\ window_scene' = w.window_scene
    /\ wm_timers' = w.wm_timers
    /\ modals' = w.modals
    /\ app_timers' = w.app_timers
    /\ backend' = w.backend
    /\ clock' = w.clock

\* context.scene.render_queue
Queue(w) == w.scene[w.window_scene].render_queue
Items(w) == Queue(w).items
\* queue.items[i] with a Python (0-based) index
InRange(items, i) == 0 <= i /\ i < Len(items)
SetItems(w, items) ==
    [w EXCEPT !.scene[w.window_scene].render_queue.items = items]
SetItemField(w, i, f, v) ==
    [w EXCEPT !.scene[w.window_scene].render_queue.items[i + 1][f] = v]
SetEta(w, text) ==
    [w EXCEPT !.scene[w.window_scene].render_queue.eta_display = text]
Truthy(v) == v # NoneRef /\ v # ""

\* --------------------------------------------------- get_next_render_item
RECURSIVE ScanEnabled(_, _)
ScanEnabled(items, i) ==
    IF i >= Len(items) THEN NONE
    ELSE IF items[i + 1].enabled THEN i
    ELSE ScanEnabled(items, i + 1)

\* variant of the lookup that begins one place too far
NextEligibleFrom_SkipsStart(items, start_index) == ScanEnabled(items, start_index + 1)

NextEligibleFrom(items, start_index) == ScanEnabled(items, start_index)

\* variant of the lookup that takes the next job whether enabled or not
get_next_render_item_AnyJob(w) ==
    IF InRange(Items(w), w.rs.current_item_index + 1)
    THEN w.rs.current_item_index + 1
    ELSE NONE

get_next_render_item(w) ==
    NextEligibleFrom(Items(w), w.rs.current_item_index + 1)

\* --------------------------------------------------------- render_cleanup
RemoveHandler(n) == IF n > 0 THEN n - 1 ELSE n

render_cleanup(w, cancelled) ==
    LET w1 == IF w.rs.timer THEN [w EXCEPT !.wm_timers = @ - 1] ELSE w
        w2 == IF w1.rs.original_scene # NoneRef
              THEN [w1 EXCEPT !.window_scene = w1.rs.original_scene] ELSE w1
        w3 == IF Truthy(w2.rs.original_path)
              THEN [w2 EXCEPT !.scene[w2.window_scene].filepath = w2.rs.original_path]
              ELSE w2
        w4 == [w3 EXCEPT !.handlers =
                 [render_pre    |-> RemoveHandler(@.render_pre),
                  render_post   |-> RemoveHandler(@.render_post),
                  render_cancel |-> RemoveHandler(@.render_cancel)]]
        idx == w4.rs.current_item_index
        w5 == IF cancelled
              THEN LET e == SetEta(w4, "Render cancelled.")
                   IN IF InRange(Items(e), idx)
                      THEN SetItemField(e, idx, "status", "Cancelled") ELSE e
              ELSE SetEta(w4, "Render queue complete.")
    IN [w5 EXCEPT !.rs = IdleState]

\* ------------------------------------------------- the render backend
\* bpy.ops.render.render('INVOKE_DEFAULT', ...): the backend holds one job at
\* a time; a request made while a job is held is refused.
RenderRequest(w, s, animation) ==
    IF w.backend.busy THEN w
    ELSE [w EXCEPT !.backend = [busy |-> TRUE, scene |-> s, camera |-> w.scene[s].camera,
                                animation |-> animation,
                                frame |-> FrameStart, started |-> FALSE]]

JobPath(item) ==
    LET filename == item.scene_name \o "_" \o item.camera_name
    IN IF item.render_type = "IMAGE" THEN "/tmp/" \o filename
       ELSE "/tmp/" \o filename \o "/"

\* ------------------------------------- RENDER_OT_render_queue_step.execute
\* variant of the pause test that never holds the queue
IsPaused_Never(w) == FALSE

\* render_state["is_paused"], as the queue step and the handlers test it
\* before advancing
IsPaused(w) == w.rs.is_paused

RECURSIVE render_queue_step(_)
render_queue_step(w) ==
    IF IsPaused(w)
    THEN w
    ELSE
    LET next_item_index == get_next_render_item(w)
        w1 == [w EXCEPT !.rs.current_item_index = next_item_index]
    IN IF next_item_index = NONE
       THEN [w1 EXCEPT !.rs.is_rendering = FALSE]
       ELSE
       LET item == Items(w1)[next_item_index + 1]
           found == item.scene_name \in w1.data_scenes
       IN IF ~found
          THEN \* render_scene is None: render_scene.objects raises AttributeError
               [w1 EXCEPT !.exc = TRUE]
          ELSE IF item.camera_name \notin w1.scene[item.scene_name].objects
          THEN render_queue_step(
                   SetItemField(w1, next_item_index, "status", "Error: Not found"))
          ELSE
          LET w2 == [w1 EXCEPT !.window_scene = item.scene_name,
                               !.scene[item.scene_name].camera = item.camera_name,
                               !.scene[item.scene_name].filepath = JobPath(item)]
          IN RenderRequest(w2, item.scene_name, item.render_type # "IMAGE")

\* ------------------------------------------------------------ formatting
RECURSIVE SumSeq(_)
SumSeq(q) == IF q = <<>> THEN 0 ELSE Head(q) + SumSeq(Tail(q))

TwoDigits(n) == IF n < 10 THEN "0" \o ToString(n) ELSE ToString(n)

\* str(datetime.timedelta(seconds=n)) for 0 <= n < 86400: H:MM:SS
TimeDelta(n) ==
    ToString(n \div 3600) \o ":" \o TwoDigits((n % 3600) \div 60) \o ":" \o TwoDigits(n % 60)

\* f"{total/count:.2f}": the quotient rounded to hundredths (no tie is inexact
\* for count < 8, so rounding half up is what the float formatting gives)
Avg2f(total, count) ==
    LET h == (200 * total + count) \div (2 * count)
    IN ToString(h \div 100) \o "." \o TwoDigits(h % 100)

\* int((done / total) * 100) in double arithmetic: the whole percent, less one
\* for the pairs whose quotient rounds below the exact value (all the pairs
\* there are with total <= 101)
FloatPercentLow == {<<29, 50>>, <<29, 100>>, <<57, 100>>, <<58, 100>>}
FloatPercent(done, total) ==
    IF <<done, total>> \in FloatPercentLow
    THEN (done * 100) \div total - 1
    ELSE (done * 100) \div total

\* scene.frame_current of scene s
FrameCurrent(w, s) ==
    IF w.backend.busy /\ w.backend.animation /\ w.backend.scene = s
    THEN w.backend.frame ELSE FrameStart

\* -------------------------------- RENDER_OT_render_queue_control.update_eta
RemainingImageJobs(items, idx) ==
    Cardinality({i \in idx .. Len(items) - 1 :
                    items[i + 1].enabled /\ items[i + 1].render_type = "IMAGE"})

\* frame_times + [live_frame_time]
AnimationTimes(frame_times, live_frame_time) == Append(frame_times, live_frame_time)

update_eta(w) ==
    LET idx == w.rs.current_item_index
        items == Items(w)
    IN IF ~w.rs.is_rendering \/ w.rs.is_paused THEN w
       ELSE IF ~InRange(items, idx) THEN w
       ELSE
       LET item == items[idx + 1]
       IN IF item.render_type = "ANIMATION"
          THEN IF item.scene_name \notin w.data_scenes
               THEN [w EXCEPT !.exc = TRUE]      \* bpy.data.scenes[...] raises KeyError
               ELSE
               LET end == w.scene[item.scene_name].frame_end
                   current == FrameCurrent(w, item.scene_name)
                   total_frames == end - FrameStart + 1
                   frames_done_in_job == current - FrameStart
                   live_frame_time == w.clock - w.rs.job_start_time
                   all_times == AnimationTimes(w.rs.frame_times, live_frame_time)
                   frames_remaining == total_frames - frames_done_in_job
                   eta_seconds == (SumSeq(all_times) * frames_remaining) \div Len(all_times)
                   w1 == SetItemField(w, idx, "progress",
                             IF total_frames > 0
                             THEN FloatPercent(frames_done_in_job, total_frames) ELSE 0)
                   w2 == SetItemField(w1, idx, "status",
                             "Frame " \o ToString(current) \o "/" \o ToString(end))
               IN SetEta(w2, "Job ETA: " \o TimeDelta(eta_seconds) \o " | Avg: "
                             \o Avg2f(SumSeq(all_times), Len(all_times)) \o "s/frame")
          ELSE
          LET all_times == w.rs.frame_times
              n == Len(all_times)
              remaining_jobs == RemainingImageJobs(items, idx)
              eta_seconds == IF n > 0 THEN (SumSeq(all_times) * remaining_jobs) \div n
                             ELSE ImagePrior * remaining_jobs
          IN SetEta(w, "Queue ETA: " \o TimeDelta(eta_seconds) \o " | Avg: "
                       \o (IF n > 0 THEN Avg2f(SumSeq(all_times), n)
                           ELSE Avg2f(ImagePrior, 1)) \o "s/image")

\* ------------------------------------------------------ render handlers
\* An exception raised inside a handler is printed by the host and the
\* handler ends there; Swallow drops it.
Swallow(w) == [w EXCEPT !.exc = FALSE]

on_render_pre(w) ==
    LET w1 == [w EXCEPT !.rs.job_start_time = w.clock]
        idx == w1.rs.current_item_index
    IN IF idx = NONE THEN w1
       ELSE IF ~InRange(Items(w1), idx) THEN [w1 EXCEPT !.exc = TRUE]   \* IndexError
       ELSE SetItemField(w1, idx, "status", "Rendering...")

on_render_post(w, frame_current, frame_end) ==
    LET frame_duration == w.clock - w.rs.job_start_time
        w1 == [w EXCEPT !.rs.frame_times = Append(@, frame_duration)]
        idx == w1.rs.current_item_index
    IN IF idx = NONE THEN w1
       ELSE IF ~InRange(Items(w1), idx) THEN [w1 EXCEPT !.exc = TRUE]   \* IndexError
       ELSE
       LET item == Items(w1)[idx + 1]
           is_last_frame == item.render_type = "ANIMATION" /\ frame_current = frame_end
           is_still_image == item.render_type = "IMAGE"
       IN IF is_still_image \/ is_last_frame
          THEN LET w2 == SetItemField(SetItemField(w1, idx, "progress", 100),
                                      idx, "status", "Done")
               IN IF ~IsPaused(w2) THEN render_queue_step(w2) ELSE w2
          ELSE IF w1.rs.is_paused THEN SetItemField(w1, idx, "status", "Paused")
          ELSE w1

on_render_cancel(w) ==
    LET idx == w.rs.current_item_index
    IN IF idx # NONE /\ ~InRange(Items(w), idx) THEN [w EXCEPT !.exc = TRUE]  \* IndexError
       ELSE
       LET w1 == IF idx # NONE THEN SetItemField(w, idx, "status", "Cancelled") ELSE w
       IN IF ~IsPaused(w1) THEN render_queue_step(w1) ELSE w1

\* the host calls every occurrence of a callback in a handler list
RECURSIVE CallPre(_, _)
CallPre(w, n) == IF n = 0 THEN w ELSE CallPre(Swallow(on_render_pre(w)), n - 1)
RECURSIVE CallPost(_, _, _, _)
CallPost(w, n, cur, end) ==
    IF n = 0 THEN w ELSE CallPost(Swallow(on_render_post(w, cur, end)), n - 1, cur, end)
RECURSIVE CallCancel(_, _)
CallCancel(w, n) == IF n = 0 THEN w ELSE CallCancel(Swallow(on_render_cancel(w)), n - 1)

\* -------------------------------------- RENDER_OT_render_queue_control
start_render(w) ==
    LET next_item_index == get_next_render_item(w)
    IN IF next_item_index = NONE THEN w
       ELSE
       LET w1 == [w EXCEPT !.rs.is_rendering = TRUE,
                           !.rs.is_paused = FALSE,
                           !.rs.current_item_index = next_item_index - 1,
                           !.rs.original_scene = w.window_scene,
                           !.rs.original_path = w.scene[w.window_scene].filepath,
                           !.rs.frame_times = <<>>]
           w2 == [w1 EXCEPT !.handlers =
                    [render_pre    |-> @.render_pre + 1,
                     render_post   |-> @.render_post + 1,
                     render_cancel |-> @.render_cancel + 1]]
           w3 == [w2 EXCEPT !.rs.timer = TRUE, !.wm_timers = @ + 1, !.modals = @ + 1]
       IN render_queue_step(w3)

cancel_render(w) == [w EXCEPT !.rs.is_rendering = FALSE]

\* modal(): the result and whether the operator stays a modal handler
modal(w, event) ==
    IF ~w.rs.is_rendering
    THEN [render_cleanup(w, TRUE) EXCEPT !.modals = @ - 1]
    ELSE IF event = "ESC"
    THEN [render_cleanup(w, TRUE) EXCEPT !.modals = @ - 1]
    ELSE IF event = "TIMER"
    THEN LET w1 == update_eta(w)
         IN IF w1.exc THEN [w1 EXCEPT !.modals = @ - 1] ELSE w1
    ELSE w

\* ---------------------------------- RENDER_OT_pause_resume_control.execute
pause_resume(w) ==
    LET w1 == [w EXCEPT !.rs.is_paused = ~@]
    IN IF w1.rs.is_paused
       THEN LET w2 == SetEta(w1, "PAUSED. Press Resume to continue.")
                idx == w2.rs.current_item_index
            IN IF InRange(Items(w2), idx)
               THEN SetItemField(w2, idx, "status", "Paused") ELSE w2
       ELSE render_queue_step(w1)

\* ------------------------------------------ RENDER_OT_refresh_queue
RefreshPoll(w) == ~w.rs.is_rendering /\ ~w.rs.is_refreshing

RECURSIVE CamerasOf(_, _, _)
CamerasOf(w, s, k) ==
    IF k > Len(CameraOrder) THEN <<>>
    ELSE (IF CameraOrder[k] \in w.scene[s].objects
          THEN <<[scene |-> s, camera |-> CameraOrder[k]]>> ELSE <<>>)
         \o CamerasOf(w, s, k + 1)

RECURSIVE Enumerate(_, _)
Enumerate(w, k) ==
    IF k > Len(SceneOrder) THEN <<>>
    ELSE (IF SceneOrder[k] \in w.data_scenes THEN CamerasOf(w, SceneOrder[k], 1) ELSE <<>>)
         \o Enumerate(w, k + 1)

refresh_queue(w, enum_ok) ==
    LET w1 == [w EXCEPT !.rs.is_refreshing = TRUE]
        w2 == SetItems(w1, <<>>)
        w3 == SetEta(w2, "Loading...")
        w4 == [w3 EXCEPT !.rs.frame_times = <<>>]
    IN IF ~enum_ok THEN [w4 EXCEPT !.exc = TRUE]
       ELSE [w4 EXCEPT !.app_timers = Append(@, Enumerate(w4, 1))]

RECURSIVE AddItems(_, _, _)
AddItems(items, camera_list, n) ==
    IF n = 0 THEN items
    ELSE AddItems(Append(items, RenderQueueItem(Head(camera_list).scene,
                                                 Head(camera_list).camera)),
                  Tail(camera_list), n - 1)

\* added: the number of items added before queue.items.add() raised
\* (Len(camera_list) when none did)
populate_queue_deferred(w, scene_name, camera_list, added) ==
    IF scene_name \notin w.data_scenes
    THEN [w EXCEPT !.rs.is_refreshing = FALSE]
    ELSE
    LET items == AddItems(w.scene[scene_name].render_queue.items, camera_list, added)
        w1 == [w EXCEPT !.scene[scene_name].render_queue.items = items]
        w2 == IF added = Len(camera_list)
              THEN [w1 EXCEPT !.scene[scene_name].render_queue.eta_display =
                       ToString(Len(items)) \o " items loaded. Ready to render."]
              ELSE [w1 EXCEPT !.scene[scene_name].render_queue.eta_display =
                       "Error. Please check console for details."]
    IN [w2 EXCEPT !.rs.is_refreshing = FALSE]

\* --------------------------------------------- RENDER_OT_move_queue_item
MovePoll(w) ==
    ~(w.rs.is_rendering \/ w.rs.is_refreshing) /\ Len(Items(w)) > 0

\* items.move(i, j): nothing moves unless both indices are in the collection
MoveItem(items, i, j) ==
    IF InRange(items, i) /\ InRange(items, j)
    THEN [items EXCEPT ![i + 1] = items[j + 1], ![j + 1] = items[i + 1]]
    ELSE items

move_queue_item(w, direction) ==
    LET q == Queue(w)
        idx == q.active_index
    IN IF direction = "UP" /\ idx > 0
       THEN [SetItems(w, MoveItem(q.items, idx, idx - 1))
                EXCEPT !.scene[w.window_scene].render_queue.active_index = idx - 1]
       ELSE IF direction = "DOWN" /\ idx < Len(q.items) - 1
       THEN [SetItems(w, MoveItem(q.items, idx, idx + 1))
                EXCEPT !.scene[w.window_scene].render_queue.active_index = idx + 1]
       ELSE w

\* ------------------------------------------------------------------ Init
\* The scenes of the file and their cameras: two cameras in the active scene,
\* or one camera in each of two scenes.
Worlds ==
    { [s \in SceneNames |-> IF s = "S1" THEN {"A", "B"} ELSE {}],
      [s \in SceneNames |-> IF s = "S1" THEN {"A"} ELSE {"B"}] }

InitialPaths == {"", "//"}

Init ==
    /\ render_state = IdleState
    /\ handlers = [render_pre |-> 0, render_post |-> 0, render_cancel |-> 0]
    /\ data_scenes = SceneNames
    /\ \E objs \in Worlds, p \in InitialPaths :
         scene = [s \in SceneNames |->
                    [objects |-> objs[s],
                     camera |-> NoneRef,
                     frame_end |-> FrameEnd,
                     filepath |-> IF s = "S1" THEN p ELSE "//",
                     render_queue |-> RenderQueuePropertyGroup]]
    /\ window_scene = "S1"
    /\ wm_timers = 0
    /\ modals = 0
    /\ app_timers = <<>>
    /\ backend = BackendIdle
    /\ clock = 0
    /\ used = 0
    /\ last_op = [op |-> "Init", res |-> "None"]
    /\ pre_start = [scene |-> NoneRef, path |-> NoneRef, cancelled |-> FALSE]

\* --------------------------------------------------------------- actions
Did(op, res) == last_op' = [op |-> op, res |-> res]

\* an operator whose poll() fails, or that returns before touching anything
Rejected(op, res) ==
    /\ Did(op, res)
    /\ UNCHANGED <<render_state, handlers, data_scenes, scene, window_scene, wm_timers,
                   modals, app_timers, backend, clock, used, pre_start>>

\* RENDER_OT_render_queue_control, action = 'START'
Start ==
    IF render_state.is_refreshing THEN Rejected("Start", "PollFailed")
       ELSE IF render_state.is_rendering THEN Rejected("Start", "AlreadyRendering")
       ELSE IF get_next_render_item(World) = NONE THEN Rejected("Start", "EmptyQueue")
       ELSE LET w == start_render(World)
            IN /\ used < MaxCommands
               /\ \E kept \in (IF w.exc THEN BOOLEAN ELSE {TRUE}) :
                     \* execute() raised after modal_handler_add(self): the
                     \* handler of the freed operator may or may not survive
                     Commit(IF kept THEN w ELSE [w EXCEPT !.modals = @ - 1])
               /\ Did("Start", IF w.exc THEN "Raised" ELSE "Started")
               /\ pre_start' = [scene |-> window_scene,
                                path |-> scene[window_scene].filepath,
                                cancelled |-> FALSE]
               /\ used' = used + 1

\* RENDER_OT_render_queue_control, action = 'CANCEL' (the panel offers it
\* while is_rendering)
Cancel ==
    /\ render_state.is_rendering
    /\ IF render_state.is_refreshing THEN Rejected("Cancel", "PollFailed")
       ELSE /\ used < MaxCommands
            /\ Commit(cancel_render(World))
            /\ Did("Cancel", "Finished")
            /\ pre_start' = [pre_start EXCEPT !.cancelled = TRUE]
            /\ used' = used + 1

\* RENDER_OT_pause_resume_control
PauseResume ==
    IF ~(render_state.is_rendering /\ ~render_state.is_refreshing)
    THEN Rejected("PauseResume", "PollFailed")
    ELSE LET w == pause_resume(World)
         IN /\ used < MaxCommands
            /\ Commit(w)
            /\ Did(IF w.rs.is_paused THEN "Pause" ELSE "Resume",
                   IF w.exc THEN "Raised" ELSE "Finished")
            /\ used' = used + 1
            /\ UNCHANGED pre_start

\* RENDER_OT_refresh_queue; enum_ok is whether the scan of scenes and objects
\* runs to its end
Refresh ==
    IF ~RefreshPoll(World) THEN Rejected("Refresh", "PollFailed")
    ELSE \E enum_ok \in BOOLEAN :
           /\ used < MaxCommands
           /\ Commit(refresh_queue(World, enum_ok))
           /\ Did("Refresh", IF enum_ok THEN "Initiated" ELSE "Raised")
           /\ used' = used + 1
           /\ UNCHANGED pre_start

\* the application timer registered by Refresh fires; the lambda reads
\* context.scene.name when it runs
Populate ==
    /\ app_timers # <<>>
    /\ LET camera_list == Head(app_timers)
           w == [World EXCEPT !.app_timers = Tail(@)]
       IN \E added \in 0 .. Len(camera_list) :
            /\ Commit(populate_queue_deferred(w, window_scene, camera_list, added))
            /\ Did("Populate", IF added = Len(camera_list) THEN "Loaded" ELSE "Failed")
            /\ UNCHANGED <<used, pre_start>>

\* RENDER_OT_move_queue_item
Move(direction) ==
    IF ~MovePoll(World) THEN Rejected("Move", "PollFailed")
    ELSE /\ used < MaxCommands
         /\ Commit(move_queue_item(World, direction))
         /\ Did("Move", direction)
         /\ used' = used + 1
         /\ UNCHANGED pre_start

\* the list of the panel is enabled unless rendering or refreshing
ListEnabled == ~(render_state.is_rendering \/ render_state.is_refreshing)

ToggleEnabled(i) ==
    /\ ListEnabled
    /\ used < MaxCommands
    /\ InRange(Items(World), i)
    /\ Commit(SetItemField(World, i, "enabled", ~Items(World)[i + 1].enabled))
    /\ Did("ToggleEnabled", "Finished")
    /\ used' = used + 1
    /\ UNCHANGED pre_start

SetRenderType(i) ==
    /\ ListEnabled
    /\ used < MaxCommands
    /\ InRange(Items(World), i)
    /\ Commit(SetItemField(World, i, "render_type",
                 IF Items(World)[i + 1].render_type = "IMAGE" THEN "ANIMATION" ELSE "IMAGE"))
    /\ Did("SetRenderType", "Finished")
    /\ used' = used + 1
    /\ UNCHANGED pre_start

\* the user deletes a camera, or a scene that is not the active one, between runs
Quiet ==
    /\ ListEnabled
    /\ render_state.original_scene = NoneRef
    /\ ~backend.busy
    /\ modals = 0

DeleteCamera(s, c) ==
    /\ Quiet
    /\ used < MaxCommands
    /\ s \in data_scenes
    /\ c \in scene[s].objects
    /\ Commit([World EXCEPT !.scene[s].objects = @ \ {c}])
    /\ Did("DeleteCamera", "Finished")
    /\ used' = used + 1
    /\ UNCHANGED pre_start

RemoveScene(s) ==
    /\ Quiet
    /\ used < MaxCommands
    /\ s \in data_scenes
    /\ s # window_scene
    /\ Commit([World EXCEPT !.data_scenes = @ \ {s}])
    /\ Did("RemoveScene", "Finished")
    /\ used' = used + 1
    /\ UNCHANGED pre_start

\* an event reaches a modal handler of RENDER_OT_render_queue_control
ModalEvent(event) ==
    /\ modals > 0
    /\ event = "TIMER" => wm_timers > 0
    /\ LET w == modal(World, event)
       IN /\ Commit(w)
          /\ Did("Modal",
                 IF ~render_state.is_rendering THEN "Cleanup"
                 ELSE IF event = "ESC" THEN "EscCleanup"
                 ELSE IF w.exc THEN "Raised" ELSE "PassThrough")
          /\ UNCHANGED <<used, pre_start>>

\* the backend is about to render a unit of its job
BackendPre ==
    /\ backend.busy
    /\ ~backend.started
    /\ Commit(CallPre([World EXCEPT !.backend.started = TRUE], handlers.render_pre))
    /\ Did("BackendPre", "None")
    /\ UNCHANGED <<used, pre_start>>

\* the backend finished a unit: the image, or one frame of the animation
BackendPost ==
    /\ backend.busy
    /\ backend.started
    /\ Len(render_state.frame_times) + handlers.render_post <= MaxSamples
    /\ LET frame_end == scene[backend.scene].frame_end
           is_last == ~backend.animation \/ backend.frame = frame_end
           w == IF is_last THEN [World EXCEPT !.backend = BackendIdle]
                ELSE [World EXCEPT !.backend.frame = @ + 1, !.backend.started = FALSE]
       IN Commit(CallPost(w, handlers.render_post,
                          FrameCurrent(World, backend.scene), frame_end))
    /\ Did("BackendPost", "None")
    /\ UNCHANGED <<used, pre_start>>

\* the backend aborted its job
BackendAbort ==
    /\ backend.busy
    /\ Commit(CallCancel([World EXCEPT !.backend = BackendIdle], handlers.render_cancel))
    /\ Did("BackendAbort", "None")
    /\ UNCHANGED <<used, pre_start>>

\* time passes
Tick ==
    /\ clock < MaxClock
    /\ Commit([World EXCEPT !.clock = @ + 1])
    /\ Did("Tick", "None")
    /\ UNCHANGED <<used, pre_start>>

Next ==
    \/ Start
    \/ Cancel
    \/ PauseResume
    \/ Refresh
    \/ Populate
    \/ \E d \in {"UP", "DOWN"} : Move(d)
    \/ \E i \in 0 .. 3 : ToggleEnabled(i)
    \/ \E i \in 0 .. 3 : SetRenderType(i)
    \/ \E s \in SceneNames, c \in CameraNames : DeleteCamera(s, c)
    \/ \E s \in SceneNames : RemoveScene(s)
    \/ \E e \in {"TIMER", "ESC"} : ModalEvent(e)
    \/ BackendPre
    \/ BackendPost
    \/ BackendAbort

Spec == Init /\ [][Next]_vars

\* the same program with time passing between the steps
NextTimed == Next \/ Tick
SpecTimed == Init /\ [][NextTimed]_vars

\* ------------------------------------------- the lookup taken on its own
\* Any queue of at most MaxLen jobs, any pattern of enabled flags, any index
\* the scheduler can be at; the step is lines 397-398 of the queue step.
LookupInit ==
    /\ \E n \in 0 .. MaxLen :
         \E en \in [1 .. n -> BOOLEAN], idx \in -1 .. n - 1 :
           /\ render_state = [IdleState EXCEPT !.current_item_index = idx]
           /\ scene = [s \in SceneNames |->
                 [objects |-> {},
                  camera |-> NoneRef,
                  frame_end |-> FrameEnd,
                  filepath |-> "//",
                  render_queue |->
                     [RenderQueuePropertyGroup EXCEPT !.items =
                        IF s = "S1"
                        THEN [i \in 1 .. n |-> [RenderQueueItem("S1", "A")
                                                   EXCEPT !.enabled = en[i]]]
                        ELSE <<>>]]]
    /\ handlers = [render_pre |-> 0, render_post |-> 0, render_cancel |-> 0]
    /\ data_scenes = SceneNames
    /\ window_scene = "S1"
    /\ wm_timers = 0
    /\ modals = 0
    /\ app_timers = <<>>
    /\ backend = BackendIdle
    /\ clock = 0
    /\ used = 0
    /\ last_op = [op |-> "Init", res |-> "None"]
    /\ pre_start = [scene |-> NoneRef, path |-> NoneRef, cancelled |-> FALSE]

LookupStep ==
    /\ render_state' = [render_state EXCEPT
                           !.current_item_index = get_next_render_item(World)]
    /\ Did("Lookup", "None")
    /\ UNCHANGED <<handlers, data_scenes, scene, window_scene, wm_timers, modals,
                   app_timers, backend, clock, used, pre_start>>

SpecLookup == LookupInit /\ [][LookupStep]_vars

\* --------------------------------------- the ETA update taken on its own
\* A run in progress on a queue of two jobs of either type, with any of the
\* sample histories below, any live frame time, a short or a long frame range
\* and the backend at any frame of it; the step is the poll tick of modal().
EtaSamples == {<<>>, <<0>>, <<1, 2>>, <<1, 1, 1>>, <<10, 20, 30>>}

EtaInit ==
    /\ \E idx \in 0 .. 1, paused \in BOOLEAN, samples \in EtaSamples,
          types \in [1 .. 2 -> {"IMAGE", "ANIMATION"}], en \in BOOLEAN,
          end \in {FrameEnd, LongRange} :
          \E frame \in FrameStart .. end :
            /\ render_state = [IdleState EXCEPT
                                  !.is_rendering = TRUE, !.is_paused = paused,
                                  !.current_item_index = idx,
                                  !.original_scene = "S1", !.original_path = "//",
                                  !.timer = TRUE, !.frame_times = samples]
            /\ scene = [s \in SceneNames |->
                  [objects |-> IF s = "S1" THEN CameraNames ELSE {},
                   camera |-> IF s = "S1" THEN CameraOrder[idx + 1] ELSE NoneRef,
                   frame_end |-> end,
                   filepath |-> "//",
                   render_queue |->
                      [RenderQueuePropertyGroup EXCEPT !.items =
                         IF s = "S1"
                         THEN [i \in 1 .. 2 |->
                                 [RenderQueueItem("S1", CameraOrder[i]) EXCEPT
                                     !.render_type = types[i],
                                     !.enabled = (i = idx + 1) \/ en]]
                         ELSE <<>>]]]
            /\ backend = [busy |-> TRUE, scene |-> "S1", camera |-> CameraOrder[idx + 1],
                          animation |-> types[idx + 1] = "ANIMATION",
                          frame |-> IF types[idx + 1] = "ANIMATION" THEN frame
                                    ELSE FrameStart,
                          started |-> TRUE]
    /\ clock \in 0 .. MaxClock
    /\ handlers = [render_pre |-> 1, render_post |-> 1, render_cancel |-> 1]
    /\ data_scenes = SceneNames
    /\ window_scene = "S1"
    /\ wm_timers = 1
    /\ modals = 1
    /\ app_timers = <<>>
    /\ used = 0
    /\ last_op = [op |-> "Init", res |-> "None"]
    /\ pre_start = [scene |-> "S1", path |-> "//", cancelled |-> FALSE]

EtaNext == ModalEvent("TIMER")

SpecEta == EtaInit /\ [][EtaNext]_vars

\* ================================================================ claims
CurrentIndex == render_state.current_item_index
CurrentItems == scene[window_scene].render_queue.items
AllQueuesAndFlags == <<render_state, handlers, data_scenes, scene, window_scene,
                       wm_timers, modals, app_timers, backend, clock>>

\* C1: for every queue and every start index, the next-eligible lookup returns
\* the smallest index at or after the start index whose job is enabled, or -1
\* when there is none; never a disabled job's index, never one outside the queue.
IsSmallestEnabledFrom(items, start, r) ==
    \/ /\ r = NONE
       /\ \A i \in start .. Len(items) - 1 : ~items[i + 1].enabled
    \/ /\ r >= start
       /\ r < Len(items)
       /\ items[r + 1].enabled
       /\ \A i \in start .. r - 1 : ~items[i + 1].enabled

C1_NextEligible ==
    /\ \A start \in 0 .. Len(CurrentItems) + 1 :
          IsSmallestEnabledFrom(CurrentItems, start,
                                NextEligibleFrom(CurrentItems, start))
    /\ last_op.op = "Lookup" =>
          \/ CurrentIndex = NONE
          \/ InRange(CurrentItems, CurrentIndex) /\ CurrentItems[CurrentIndex + 1].enabled

\* the lookup ran and stepped over a disabled job onto an enabled one
C1_Witness ==
    /\ last_op.op = "Lookup"
    /\ CurrentIndex >= 1
    /\ ~CurrentItems[CurrentIndex].enabled
    /\ CurrentItems[CurrentIndex + 1].enabled

\* C2: Start issued while not rendering on a queue that is empty or whose jobs
\* are all disabled reports the empty queue and changes nothing: is_rendering
\* stays false, index, saved context, history, timer and handlers are as before.
NoEligibleJob == \A i \in 1 .. Len(CurrentItems) : ~CurrentItems[i].enabled

C2_StartEmptyQueue ==
    [][ ( /\ last_op'.op = "Start"
          /\ ~render_state.is_rendering
          /\ ~render_state.is_refreshing
          /\ NoEligibleJob )
        => ( /\ last_op'.res = "EmptyQueue"
             /\ UNCHANGED AllQueuesAndFlags ) ]_vars

\* Start was refused on a queue that holds jobs, all of them disabled
C2_Witness ==
    /\ last_op = [op |-> "Start", res |-> "EmptyQueue"]
    /\ ~render_state.is_rendering
    /\ Len(CurrentItems) > 0
    /\ NoEligibleJob

\* C3: after Start exactly one job of the queue has the running status at any
\* instant of the run, the others being pending, done, cancelled or in error.
RunQueueItems ==
    IF pre_start.scene = NoneRef THEN <<>>
    ELSE scene[pre_start.scene].render_queue.items
IsRunningStatus(st) ==
    \/ st = "Rendering..."
    \/ \E c \in FrameStart .. FrameEnd :
          st = "Frame " \o ToString(c) \o "/" \o ToString(FrameEnd)
RestingStatuses == {"Pending", "Done", "Cancelled", "Error: Not found"}

C3_ExactlyOneRunning ==
    render_state.is_rendering =>
       /\ Cardinality({i \in 1 .. Len(RunQueueItems) :
                          IsRunningStatus(RunQueueItems[i].status)}) = 1
       /\ \A i \in 1 .. Len(RunQueueItems) :
             \/ IsRunningStatus(RunQueueItems[i].status)
             \/ RunQueueItems[i].status \in RestingStatuses

\* C4: Cancel from Running or Paused ends in Idle with the active scene and its
\* output path as they were just before Start, and with the three handlers and
\* the timer removed.
NoHandlers == handlers = [render_pre |-> 0, render_post |-> 0, render_cancel |-> 0]

C4_CancelRestores ==
    (last_op = [op |-> "Modal", res |-> "Cleanup"] /\ pre_start.cancelled) =>
       /\ render_state = IdleState
       /\ window_scene = pre_start.scene
       /\ scene[pre_start.scene].filepath = pre_start.path
       /\ NoHandlers
       /\ wm_timers = 0

\* C5: from any reachable state, render_cleanup run twice leaves the state that
\* render_cleanup run once leaves.
C5_CleanupIdempotent ==
    \A cancelled \in BOOLEAN :
       render_cleanup(render_cleanup(World, cancelled), cancelled)
          = render_cleanup(World, cancelled)

\* C6: Pause followed immediately by Resume leaves the current index where it
\* was when Pause was issued.
C6_PauseResumeSameIndex ==
    [][ (last_op.op = "Pause" /\ last_op'.op = "Resume")
        => render_state'.current_item_index = render_state.current_item_index ]_vars

\* C7: a job whose scene or camera cannot be resolved is marked Error and
\* passed over by the same Advance: while rendering, the current index never
\* rests on a job that cannot be resolved.
Resolvable(item) ==
    /\ item.scene_name \in data_scenes
    /\ item.camera_name \in scene[item.scene_name].objects

C7_UnresolvedSkipped ==
    (render_state.is_rendering /\ InRange(CurrentItems, CurrentIndex)) =>
       Resolvable(CurrentItems[CurrentIndex + 1])

\* a run lasts from Start until render_cleanup has run: is_rendering is set, or
\* the modal operator of the run is still waiting to tear it down
RunActive == render_state.is_rendering \/ modals > 0

\* C8: Refresh issued while a run is active (from Start until cleanup has
\* returned the scheduler to Idle) is rejected and leaves the queues and every
\* field of render_state unchanged.
C8_RefreshRejectedDuringRun ==
    [][ (last_op'.op = "Refresh" /\ RunActive)
        => ( /\ last_op'.res = "PollFailed"
             /\ UNCHANGED AllQueuesAndFlags ) ]_vars

\* C9: at most one refresh is in flight; while the flag is set Start,
\* Pause/Resume and Move are rejected; nothing but the deferred populate of
\* that refresh clears the flag.
C9_RefreshMutex ==
    /\ [](Len(app_timers) <= 1)
    /\ [][ (render_state.is_refreshing /\ last_op'.op \in {"Start", "Pause", "Resume", "PauseResume", "Move"})
           => (last_op'.res = "PollFailed" /\ UNCHANGED AllQueuesAndFlags) ]_vars
    /\ [][ (render_state.is_refreshing /\ app_timers # <<>> /\ ~render_state'.is_refreshing)
           => last_op'.op = "Populate" ]_vars

\* C10: every exit path of Refresh clears the flag: a failed enumeration leaves
\* the queue as it was and the flag clear, the deferred populate clears the flag
\* whether it fails or not, and the flag is never set with no populate pending.
C10_RefreshExits ==
    /\ [](render_state.is_refreshing => app_timers # <<>>)
    /\ [][ last_op' = [op |-> "Refresh", res |-> "Raised"]
           => (~render_state'.is_refreshing /\ scene' = scene) ]_vars
    /\ [][ last_op'.op = "Populate" => ~render_state'.is_refreshing ]_vars

\* C11: in every reachable state, every job of every queue has progress 100
\* exactly when its status is Done.
C11_ProgressIffDone ==
    \A s \in SceneNames :
       \A i \in 1 .. Len(scene[s].render_queue.items) :
          LET item == scene[s].render_queue.items[i]
          IN (item.progress = 100) <=> (item.status = "Done")

\* eta_display of the queue the panel shows
EtaDisplay == scene[window_scene].render_queue.eta_display
CancelledJobs(sc) ==
    {<<s, i>> \in SceneNames \X (1 .. 4) :
        /\ i <= Len(sc[s].render_queue.items)
        /\ sc[s].render_queue.items[i].status = "Cancelled"}

\* C12: when the queue step has found no further eligible job (index -1,
\* is_rendering cleared, no Cancel issued), the cleanup that follows returns the
\* scheduler to Idle, reports the queue as complete and marks no job Cancelled.
C12_NaturalCompletion ==
    [][ ( /\ last_op' = [op |-> "Modal", res |-> "Cleanup"]
          /\ ~pre_start.cancelled
          /\ ~render_state.is_refreshing
          /\ CurrentIndex = NONE )
        => ( /\ render_state' = IdleState
             /\ EtaDisplay' = "Render queue complete."
             /\ CancelledJobs(scene') = CancelledJobs(scene) ) ]_vars

\* the poll tick reached update_eta with the job at the current index an
\* image job (resp. an animation job)
TickOnJob(type) ==
    /\ render_state.is_rendering
    /\ ~render_state.is_paused
    /\ InRange(CurrentItems, CurrentIndex)
    /\ CurrentItems[CurrentIndex + 1].render_type = type
ImageJobsDone ==
    {i \in 1 .. Len(CurrentItems) :
        CurrentItems[i].render_type = "IMAGE" /\ CurrentItems[i].status = "Done"}
ImageJobsAhead ==
    Cardinality({i \in CurrentIndex + 1 .. Len(CurrentItems) :
                    CurrentItems[i].enabled /\ CurrentItems[i].render_type = "IMAGE"})

\* C13: on a poll tick with an image job current the average is the mean of
\* the samples of completed image jobs, or the prior 30 when there is none,
\* and the remaining time is the average times the enabled image jobs from the
\* current index on; samples of animation frames do not enter: as long as no
\* image job of the queue has completed, the display is the prior's.
C13_ImageEta ==
    [][ ( /\ last_op' = [op |-> "Modal", res |-> "PassThrough"]
          /\ TickOnJob("IMAGE")
          /\ ImageJobsDone = {} )
        => EtaDisplay' = "Queue ETA: " \o TimeDelta(ImagePrior * ImageJobsAhead)
                            \o " | Avg: 30.00s/image" ]_vars

\* C14: on a poll tick with an animation job current the average is the mean
\* of the recorded samples together with the live time of the current frame,
\* the remaining time is that average times the frames remaining in the job,
\* and the progress is the whole percentage frames completed / total frames.
C14_SequenceEta ==
    (last_op = [op |-> "Modal", res |-> "PassThrough"] /\ TickOnJob("ANIMATION")) =>
       LET item == CurrentItems[CurrentIndex + 1]
           live == clock - render_state.job_start_time
           sum == SumSeq(render_state.frame_times) + live
           n == Len(render_state.frame_times) + 1
           total == scene[item.scene_name].frame_end - FrameStart + 1
           done == backend.frame - FrameStart
       IN /\ item.progress * total <= done * 100
          /\ done * 100 < (item.progress + 1) * total
          /\ EtaDisplay = "Job ETA: " \o TimeDelta((sum * (total - done)) \div n)
                             \o " | Avg: " \o Avg2f(sum, n) \o "s/frame"

\* C15: each of the three handlers is subscribed at most once at any time, and
\* once cleanup has returned the scheduler to Idle no handler and no timer of
\* the run remains.
C15_SubscribedOnce ==
    /\ handlers.render_pre <= 1
    /\ handlers.render_post <= 1
    /\ handlers.render_cancel <= 1
    /\ (~render_state.is_rendering /\ render_state.original_scene = NoneRef
                                   /\ ~render_state.timer)
          => (NoHandlers /\ wm_timers = 0)

\* the job of item is the job the backend holds
HeldByBackend(item) ==
    /\ backend.busy
    /\ item.scene_name = backend.scene
    /\ item.camera_name = backend.camera

\* C16: a unit-finished event marks a job Done only if the unit belongs to
\* that job: whichever job a render_post event turns to Done during a run is
\* the job the backend was rendering.
C16_PostRoutedToItsJob ==
    [][ (last_op'.op = "BackendPost" /\ render_state.is_rendering) =>
          \A s \in SceneNames :
             \A i \in 1 .. Len(scene[s].render_queue.items) :
                ( /\ scene[s].render_queue.items[i].status # "Done"
                  /\ scene'[s].render_queue.items[i].status = "Done" )
                => HeldByBackend(scene[s].render_queue.items[i]) ]_vars

\* the backend holds a job that was handed to it and has not begun
FreshJob(b) == b.busy /\ ~b.started /\ b.frame = FrameStart
BackendEvents == {"BackendPre", "BackendPost", "BackendAbort"}

\* C17: while paused, no backend event changes the current index or hands a
\* new job to the backend.
C17_PauseHolds ==
    [][ (render_state.is_paused /\ last_op'.op \in BackendEvents)
        => ( /\ render_state'.current_item_index = render_state.current_item_index
             /\ ~FreshJob(backend') ) ]_vars

\* the last unit of the current job finished during a pause: the job is Done,
\* a further eligible job waits, and the backend has been handed nothing
C17_Witness ==
    /\ last_op.op = "BackendPost"
    /\ render_state.is_rendering
    /\ render_state.is_paused
    /\ InRange(CurrentItems, CurrentIndex)
    /\ CurrentItems[CurrentIndex + 1].status = "Done"
    /\ NextEligibleFrom(CurrentItems, CurrentIndex + 1) # NONE
    /\ ~backend.busy

\* C18: a unit-finished event that arrives while paused leaves frame_times
\* unchanged.
C18_PauseFreezesSamples ==
    [][ (render_state.is_paused /\ last_op'.op = "BackendPost")
        => render_state'.frame_times = render_state.frame_times ]_vars

\* C19: on an aborted event during a run (one cancel handler subscribed) the
\* current job is marked Cancelled with progress 0; when not paused the index
\* moves to the next eligible job (past the jobs that cannot be resolved), or
\* the run completes when there is none; when paused the index does not change.
C19_AbortedEvent ==
    [][ ( /\ last_op'.op = "BackendAbort"
          /\ render_state.is_rendering
          /\ handlers.render_cancel = 1
          /\ InRange(CurrentItems, CurrentIndex) )
        => LET job == scene'[window_scene].render_queue.items[CurrentIndex + 1]
               next == render_state'.current_item_index
               last == IF next = NONE THEN Len(CurrentItems) ELSE next
           IN /\ job.status = "Cancelled"
              /\ job.progress = 0
              /\ render_state.is_paused => next = CurrentIndex
              /\ ~render_state.is_paused =>
                    /\ next = NONE \/ (next > CurrentIndex /\ InRange(CurrentItems, next))
                    /\ next # NONE => CurrentItems[next + 1].enabled
                    /\ next = NONE => ~render_state'.is_rendering
                    /\ \A j \in CurrentIndex + 2 .. last :
                          ~(CurrentItems[j].enabled /\ Resolvable(CurrentItems[j])) ]_vars

\* C20: in every reachable state render_state and the subscriptions are either
\* fully idle or those of a fully initialised run.
FullyIdle ==
    /\ ~render_state.is_rendering
    /\ ~render_state.is_paused
    /\ CurrentIndex = NONE
    /\ render_state.original_scene = NoneRef
    /\ render_state.original_path = NoneRef
    /\ ~render_state.timer
    /\ NoHandlers
FullyRunning ==
    /\ render_state.is_rendering
    /\ render_state.original_scene # NoneRef
    /\ render_state.original_path # NoneRef
    /\ render_state.timer
    /\ handlers.render_pre >= 1
    /\ handlers.render_post >= 1
    /\ handlers.render_cancel >= 1

C20_NeverPartial == FullyIdle \/ FullyRunning

\* Cancel has been issued and render_cleanup has not run yet
CancelPending ==
    /\ pre_start.cancelled
    /\ ~render_state.is_rendering
    /\ render_state.original_scene # NoneRef

\* C21: once Cancel has been issued, until cleanup or the next Start, no job is
\* handed to the backend and the current index does not move to another job.
C21_NoJobAfterCancel ==
    [][ (CancelPending /\ last_op'.op # "Start")
        => ( /\ FreshJob(backend') => backend' = backend
             /\ \/ render_state'.current_item_index = CurrentIndex
                \/ render_state'.current_item_index = NONE ) ]_vars

\* the operations of the scheduler that read or write the queue
QueueUsers == BackendEvents \union {"Modal", "Pause", "Resume"}

\* C22: throughout a run, whenever the scheduler reads or writes the queue,
\* the queue it reaches through the active scene is the queue of the scene the
\* run was started on, and the current index is -1 or inside that queue.
C22_SameQueueInBounds ==
    [][ (render_state.is_rendering /\ last_op'.op \in QueueUsers)
        => ( /\ window_scene = render_state.original_scene
             /\ \/ CurrentIndex = NONE
                \/ InRange(scene[render_state.original_scene].render_queue.items,
                           CurrentIndex) ) ]_vars

====
